---- MODULE Spec2Model ----
(***************************************************************************)
(* Model of cfso.py: one run of main() resolves a Cloudflare zone, then    *)
(* enables DNSSEC, manages the apex AAAA placeholder, patches six zone     *)
(* settings, manages the SPF TXT record and submits the domain to the HSTS *)
(* preload list.  The provider (zone list, DNS record list) and the        *)
(* preload endpoint are the environment; every provider call may raise     *)
(* CloudFlareAPIError, the preload POST may raise or answer anything.      *)
(* Strings whose content is inspected are sequences of one-character       *)
(* strings; printed messages are the sequence of the f-string's pieces.    *)
(***************************************************************************)
EXTENDS Integers, Sequences, FiniteSets, TLC

\* ---- bounds ----
MaxRuns == 2        \* consecutive invocations of the script
MaxErrors == 2      \* length of the "errors" array of a preload answer
MaxWarnings == 1    \* length of the "warnings" array of a preload answer

VARIABLES
  pc,           \* position of main()
  run,          \* number of the current invocation
  zones,        \* provider: zones matching the name (list)
  records,      \* provider: DNS records of the zone (list)
  zone_id,      \* main's local zone_id
  calls,        \* remote calls issued by this invocation, in order
  out,          \* lines printed by this invocation, in order
  exit_status,  \* process exit status, -1 while running
  faulted,      \* some provider call has raised in this or an earlier run
  fullRuns      \* invocations so far that went through all four hardening steps

vars == <<pc, run, zones, records, zone_id, calls, out, exit_status, faulted, fullRuns>>

\* ---- strings that the code inspects ----
SPFTag == <<"v", "=", "s", "p", "f", "1">>
SPFNoMail == <<"v", "=", "s", "p", "f", "1", " ", "-", "a", "l", "l">>
SPFQuoted == <<"\"", "v", "=", "s", "p", "f", "1", " ", "~", "a", "l", "l", "\"">>
NotSPF == <<"v", "=", "D", "K", "I", "M", "1">>
PlaceholderAddr == <<"1", "0", "0", ":", ":">>

NoZone == "None"
NoName == "None"
NoType == "None"
APIErrorText == "CloudFlareAPIError"

Terminal == {"returned", "exited", "raised"}

\* ---- log entries ----
Call(op, zid, key, name, data, res, ret) ==
  [op |-> op, zone |-> zid, key |-> key, name |-> name, data |-> data, res |-> res, ret |-> ret]

\* print_status(success, message)
print_status(success, message) ==
  [sym |-> IF success THEN "[ok]" ELSE "[x]", msg |-> message]

\* print(message)
print(message) == [sym |-> "", msg |-> message]

\* ---- provider ----
Rec(type, name, content, ttl, proxied) ==
  [type |-> type, name |-> name, content |-> content, ttl |-> ttl, proxied |-> proxied]

\* cf.zones.dns_records.get(zone_id, params=...) when it does not raise
DnsRecordsGet(recs, type, name) ==
  SelectSeq(recs, LAMBDA r : r.type = type /\ (name = NoName \/ r.name = name))

\* a create that replaces the records of the same type and name
DnsRecordsPost_replace(recs, data) ==
  Append(SelectSeq(recs, LAMBDA r : ~(r.type = data.type /\ r.name = data.name)), data)

\* cf.zones.dns_records.post(zone_id, data=...) when it does not raise
DnsRecordsPost(recs, data) == Append(recs, data)

\* ---- pure helpers of the code ----

\* Python's `sub in s` on strings
RECURSIVE StrIn(_, _)
StrIn(sub, s) ==
  IF Len(s) < Len(sub) THEN FALSE
  ELSE IF SubSeq(s, 1, Len(sub)) = sub THEN TRUE
  ELSE StrIn(sub, Tail(s))

\* spf_exists with startswith() in place of `in`
RECURSIVE spf_exists_startswith(_)
spf_exists_startswith(dns_records) ==
  IF dns_records = <<>> THEN FALSE
  ELSE IF Len(Head(dns_records).content) >= Len(SPFTag)
          /\ SubSeq(Head(dns_records).content, 1, Len(SPFTag)) = SPFTag THEN TRUE
  ELSE spf_exists_startswith(Tail(dns_records))

\* any('v=spf1' in record['content'] for record in dns_records)
RECURSIVE spf_exists(_)
spf_exists(dns_records) ==
  IF dns_records = <<>> THEN FALSE
  ELSE IF StrIn(SPFTag, Head(dns_records).content) THEN TRUE
  ELSE spf_exists(Tail(dns_records))

\* record type lists that drop or reorder a type
RecordTypes_noCNAME == <<"AAAA", "A">>

RecordTypes_noAAAA == <<"A", "CNAME">>

\* the record types main passes to check_dns_record_exists, in order
RecordTypes == <<"AAAA", "A", "CNAME">>

\* the AAAA record without proxying
AAAAData_unproxied == Rec("AAAA", "@", PlaceholderAddr, 120, FALSE)

\* the data of the two records main creates
AAAAData == Rec("AAAA", "@", PlaceholderAddr, 120, TRUE)

SPFData == [name |-> "@", type |-> "TXT", content |-> SPFNoMail, ttl |-> 120]

\* the settings dict of main, in insertion order
SettingNames ==
  <<"ssl", "min_tls_version", "tls_1_3", "always_use_https",
    "automatic_https_rewrites", "security_header">>

SettingData(setting) ==
  CASE setting = "ssl" -> [value |-> "strict"]
    [] setting = "min_tls_version" -> [value |-> "1.2"]
    [] setting = "tls_1_3" -> [value |-> "on"]
    [] setting = "always_use_https" -> [value |-> "on"]
    [] setting = "automatic_https_rewrites" -> [value |-> "on"]
    [] setting = "security_header" ->
         [strict_transport_security |->
            [enabled |-> TRUE, max_age |-> 31536000, include_subdomains |-> TRUE,
             preload |-> TRUE, nosniff |-> TRUE]]

\* check_dns_record_exists without the early return: every type is
\* queried and the last type found is returned
RECURSIVE check_dns_record_exists_noReturn(_, _, _, _, _)
check_dns_record_exists_noReturn(recs, zid, record_types, name, fails) ==
  IF record_types = <<>>
  THEN [calls |-> <<>>, out |-> <<>>, raised |-> FALSE,
        found |-> FALSE, record_type |-> NoType]
  ELSE LET record_type == Head(record_types)
           dns_records == DnsRecordsGet(recs, record_type, name)
           call == Call("dns_records.get", zid, record_type, name, {}, "ok", dns_records)
           rest == check_dns_record_exists_noReturn(recs, zid, Tail(record_types), name, fails)
       IN IF record_type \in fails
          THEN [calls |-> <<Call("dns_records.get", zid, record_type, name, {}, "err", <<>>)>>,
                out |-> <<>>, raised |-> TRUE,
                found |-> FALSE, record_type |-> NoType]
          ELSE IF dns_records # <<>>
          THEN [calls |-> <<call>> \o rest.calls,
                out |-> <<print_status(FALSE,
                            <<"An existing ", record_type, " record found for ", name, ".">>)>>
                        \o rest.out,
                raised |-> rest.raised,
                found |-> ~rest.raised,
                record_type |-> IF rest.found THEN rest.record_type
                                ELSE IF rest.raised THEN NoType ELSE record_type]
          ELSE [rest EXCEPT !.calls = <<call>> \o @]

\* check_dns_record_exists(cf, zone_id, record_types, name); `fails` is the
\* set of types whose query raises CloudFlareAPIError.  The result carries
\* the calls issued, the lines printed, and either the returned pair or
\* the fact that the exception left the function.
RECURSIVE check_dns_record_exists(_, _, _, _, _)
check_dns_record_exists(recs, zid, record_types, name, fails) ==
  IF record_types = <<>>
  THEN [calls |-> <<>>, out |-> <<>>, raised |-> FALSE,
        found |-> FALSE, record_type |-> NoType]
  ELSE LET record_type == Head(record_types)
           dns_records == DnsRecordsGet(recs, record_type, name)
       IN IF record_type \in fails
          THEN [calls |-> <<Call("dns_records.get", zid, record_type, name, {}, "err", <<>>)>>,
                out |-> <<>>, raised |-> TRUE,
                found |-> FALSE, record_type |-> NoType]
          ELSE IF dns_records # <<>>
          THEN [calls |-> <<Call("dns_records.get", zid, record_type, name, {}, "ok", dns_records)>>,
                out |-> <<print_status(FALSE,
                            <<"An existing ", record_type, " record found for ", name, ".">>)>>,
                raised |-> FALSE,
                found |-> TRUE, record_type |-> record_type]
          ELSE LET rest == check_dns_record_exists(recs, zid, Tail(record_types), name, fails)
               IN [rest EXCEPT !.calls =
                     <<Call("dns_records.get", zid, record_type, name, {}, "ok", dns_records)>> \o @]

\* the loop `for setting, data in settings.items()` from position i on;
\* failAt is the position whose patch raises (0: none).  Result: the calls
\* issued, the lines printed, and whether the exception left the loop.
RECURSIVE settings_loop(_, _, _)
settings_loop(zid, i, failAt) ==
  IF i > Len(SettingNames)
  THEN [calls |-> <<>>, out |-> <<>>, raised |-> FALSE]
  ELSE LET setting == SettingNames[i]
       IN IF i = failAt
          THEN [calls |-> <<Call("settings.patch", zid, setting, NoName,
                                 {SettingData(setting)}, "err", <<>>)>>,
                out |-> <<>>, raised |-> TRUE]
          ELSE LET rest == settings_loop(zid, i + 1, failAt)
               IN [rest EXCEPT
                     !.calls = <<Call("settings.patch", zid, setting, NoName,
                                      {SettingData(setting)}, "ok", <<>>)>> \o @,
                     !.out = <<print_status(TRUE, <<setting, " updated successfully.">>)>> \o @]

\* ---- the preload endpoint ----
ZoneName == "example.com"

ErrorItem == [summary |-> "Missing HSTS header", message |-> "m"]
WarningItem == [summary |-> "Unnecessary redirect", message |-> "m"]

Lists(item, n) == {[i \in 1..k |-> item] : k \in 0..n}

\* a JSON object: the keys it has, and the two arrays (empty when absent)
JsonBodies ==
  {b \in [keys : SUBSET {"errors", "warnings"},
          errors : Lists(ErrorItem, MaxErrors),
          warnings : Lists(WarningItem, MaxWarnings)] :
     /\ ("errors" \notin b.keys => b.errors = <<>>)
     /\ ("warnings" \notin b.keys => b.warnings = <<>>)}

NoBody == [keys |-> {}, errors |-> <<>>, warnings |-> <<>>]

\* what requests.post can do: raise, or return a response whose body is a
\* JSON object or is not JSON at all
Answers ==
  {[raises |-> TRUE, status |-> 0, valid |-> FALSE, json |-> NoBody]}
  \cup {[raises |-> FALSE, status |-> 200, valid |-> TRUE, json |-> b] : b \in JsonBodies}
  \cup {[raises |-> FALSE, status |-> st, valid |-> FALSE, json |-> NoBody] : st \in {200, 202, 503}}

RECURSIVE error_lines(_)
error_lines(errors) ==
  IF errors = <<>> THEN <<>>
  ELSE <<print_status(FALSE, <<"Error: ", Head(errors).summary, " - ", Head(errors).message>>)>>
       \o error_lines(Tail(errors))

RECURSIVE warning_lines(_)
warning_lines(warnings) ==
  IF warnings = <<>> THEN <<>>
  ELSE <<print(<<"Warning: ", Head(warnings).summary, " - ", Head(warnings).message>>)>>
       \o warning_lines(Tail(warnings))

\* submit_domain_to_hsts_preload(domain_name) when the POST is answered by
\* `answer`.  Result: the call, the lines printed, and whether an exception
\* left the function.
submit_domain_to_hsts_preload(domain_name, answer) ==
  IF answer.raises
  THEN [calls |-> <<Call("requests.post", NoZone, domain_name, NoName, {}, "err", <<>>)>>,
        out |-> <<>>, raised |-> TRUE]
  ELSE LET call == Call("requests.post", NoZone, domain_name, NoName, {}, "ok", <<answer>>)
           response_json == answer.json
       IN IF answer.status = 200
          THEN IF ~answer.valid
               THEN [calls |-> <<call>>, out |-> <<>>, raised |-> TRUE]
               ELSE [calls |-> <<call>>,
                     out |->
                       (IF "errors" \in response_json.keys
                        THEN error_lines(response_json.errors)
                             \o (IF response_json.errors = <<>>
                                 THEN <<print_status(TRUE,
                                          <<"Domain ", domain_name,
                                            " submitted to HSTS preload list successfully.">>)>>
                                 ELSE <<>>)
                        ELSE <<>>)
                       \o (IF "warnings" \in response_json.keys
                           THEN warning_lines(response_json.warnings)
                           ELSE <<>>),
                     raised |-> FALSE]
          ELSE [calls |-> <<call>>,
                out |-> <<print_status(FALSE,
                            <<"Failed to submit domain ", domain_name,
                              " to HSTS preload list. Status code: ", ToString(answer.status)>>),
                          print(<<"Response text:", "text">>)>>,
                raised |-> FALSE]

\* ---- initial provider state ----
ZoneLists == {<<>>, <<[id |-> "Z2"], [id |-> "Z1"]>>}

\* a record off the apex that every initial zone has
WwwRecord == Rec("A", "www", <<"1", ".", "1">>, 300, FALSE)

\* records an initial zone may or may not have
Candidates ==
  <<Rec("AAAA", "@", <<"2", ":", ":", "1">>, 300, FALSE),
    Rec("A", "@", <<"1", ".", "1">>, 300, FALSE),
    Rec("CNAME", "@", <<"h", ".", "x">>, 300, FALSE),
    Rec("TXT", "@", NotSPF, 300, FALSE),
    Rec("TXT", "@", SPFQuoted, 300, FALSE),
    Rec("TXT", "mail", SPFNoMail, 300, FALSE)>>

RecordLists ==
  {<<WwwRecord>> \o SelectSeq(Candidates, LAMBDA r : r \in S) :
     S \in SUBSET {Candidates[i] : i \in DOMAIN Candidates}}

Init ==
  /\ pc = "start"
  /\ run = 1
  /\ zones \in ZoneLists
  /\ records \in RecordLists
  /\ zone_id = NoZone
  /\ calls = <<>>
  /\ out = <<>>
  /\ exit_status = -1
  /\ faulted = FALSE
  /\ fullRuns = 0

\* ---- main(), one action per block ----

\* lines 56-63: get_zone_name(), initialize_cloudflare(), the header;
\* argc is len(sys.argv)
Start ==
  /\ pc = "start"
  /\ \E argc \in 1..3 :
       IF argc # 2
       THEN /\ out' = out \o <<print(<<"[x] Incorrect usage. Please provide just the zone name.">>)>>
            /\ pc' = "exited"
            /\ exit_status' = 1
       ELSE /\ out' = out \o <<print(<<"[i] Initializing with API Key and Email">>),
                               print(<<"------[ Domain level checks for ]-----", ZoneName>>)>>
            /\ pc' = "zone_lookup"
            /\ exit_status' = exit_status
  /\ UNCHANGED <<run, zones, records, zone_id, calls, faulted, fullRuns>>

\* ZoneLookup without the `if not zones` return
ZoneLookup_noEmptyCheck ==
  /\ pc = "zone_lookup"
  /\ \E fail \in BOOLEAN :
       IF fail
       THEN /\ calls' = Append(calls, Call("zones.get", NoZone, ZoneName, NoName, {}, "err", <<>>))
            /\ out' = Append(out, print_status(FALSE,
                         <<"Error fetching zone information: ", APIErrorText>>))
            /\ faulted' = TRUE
            /\ pc' = "returned"
            /\ exit_status' = 0
            /\ zone_id' = zone_id
       ELSE /\ calls' = Append(calls, Call("zones.get", NoZone, ZoneName, NoName, {}, "ok", zones))
            /\ faulted' = faulted
            /\ zone_id' = IF zones = <<>> THEN NoZone ELSE zones[1].id
            /\ out' = Append(out, print_status(TRUE, <<"Zone ID: ", zone_id'>>))
            /\ pc' = "dnssec"
            /\ exit_status' = exit_status
  /\ UNCHANGED <<run, zones, records, fullRuns>>

\* ZoneLookup whose exception handler does not return
ZoneLookup_noReturnOnError ==
  /\ pc = "zone_lookup"
  /\ \E fail \in BOOLEAN :
       IF fail
       THEN /\ calls' = Append(calls, Call("zones.get", NoZone, ZoneName, NoName, {}, "err", <<>>))
            /\ out' = Append(out, print_status(FALSE,
                         <<"Error fetching zone information: ", APIErrorText>>))
            /\ faulted' = TRUE
            /\ pc' = "dnssec"
            /\ exit_status' = exit_status
            /\ zone_id' = zone_id
       ELSE /\ calls' = Append(calls, Call("zones.get", NoZone, ZoneName, NoName, {}, "ok", zones))
            /\ faulted' = faulted
            /\ IF zones = <<>>
               THEN /\ out' = Append(out, print_status(FALSE,
                                 <<"No zones found for the specified name.">>))
                    /\ pc' = "returned"
                    /\ exit_status' = 0
                    /\ zone_id' = zone_id
               ELSE /\ zone_id' = zones[1].id
                    /\ out' = Append(out, print_status(TRUE, <<"Zone ID: ", zones[1].id>>))
                    /\ pc' = "dnssec"
                    /\ exit_status' = exit_status
  /\ UNCHANGED <<run, zones, records, fullRuns>>

\* lines 65-74
ZoneLookup ==
  /\ pc = "zone_lookup"
  /\ \E fail \in BOOLEAN :
       IF fail
       THEN /\ calls' = Append(calls, Call("zones.get", NoZone, ZoneName, NoName, {}, "err", <<>>))
            /\ out' = Append(out, print_status(FALSE,
                         <<"Error fetching zone information: ", APIErrorText>>))
            /\ faulted' = TRUE
            /\ pc' = "returned"
            /\ exit_status' = 0
            /\ zone_id' = zone_id
       ELSE /\ calls' = Append(calls, Call("zones.get", NoZone, ZoneName, NoName, {}, "ok", zones))
            /\ faulted' = faulted
            /\ IF zones = <<>>
               THEN /\ out' = Append(out, print_status(FALSE,
                                 <<"No zones found for the specified name.">>))
                    /\ pc' = "returned"
                    /\ exit_status' = 0
                    /\ zone_id' = zone_id
               ELSE /\ zone_id' = zones[1].id
                    /\ out' = Append(out, print_status(TRUE, <<"Zone ID: ", zones[1].id>>))
                    /\ pc' = "dnssec"
                    /\ exit_status' = exit_status
  /\ UNCHANGED <<run, zones, records, fullRuns>>

\* EnableDNSSEC with the exception handler ending the run
EnableDNSSEC_return ==
  /\ pc = "dnssec"
  /\ \E fail \in BOOLEAN :
       /\ calls' = Append(calls, Call("dnssec.patch", zone_id, "status", NoName,
                                      {[status |-> "active"]},
                                      IF fail THEN "err" ELSE "ok", <<>>))
       /\ out' = Append(out, IF fail
                             THEN print_status(FALSE, <<"Failed to enable DNSSEC: ", APIErrorText>>)
                             ELSE print_status(TRUE, <<"DNSSEC enabled successfully.">>))
       /\ faulted' = (faulted \/ fail)
       /\ pc' = IF fail THEN "returned" ELSE "dns_records"
       /\ exit_status' = IF fail THEN 0 ELSE exit_status
  /\ UNCHANGED <<run, zones, records, zone_id, fullRuns>>

\* EnableDNSSEC retrying the patch once when it raised
EnableDNSSEC_retry ==
  /\ pc = "dnssec"
  /\ \E fail \in BOOLEAN, failAgain \in BOOLEAN :
       LET patch(res) == Call("dnssec.patch", zone_id, "status", NoName,
                              {[status |-> "active"]}, res, <<>>)
       IN /\ calls' = IF fail
                      THEN calls \o <<patch("err"), patch(IF failAgain THEN "err" ELSE "ok")>>
                      ELSE Append(calls, patch("ok"))
          /\ out' = Append(out, IF fail /\ failAgain
                                THEN print_status(FALSE,
                                       <<"Failed to enable DNSSEC: ", APIErrorText>>)
                                ELSE print_status(TRUE, <<"DNSSEC enabled successfully.">>))
          /\ faulted' = (faulted \/ fail)
  /\ pc' = "dns_records"
  /\ UNCHANGED <<run, zones, records, zone_id, exit_status, fullRuns>>

\* lines 76-81
EnableDNSSEC ==
  /\ pc = "dnssec"
  /\ \E fail \in BOOLEAN :
       /\ calls' = Append(calls, Call("dnssec.patch", zone_id, "status", NoName,
                                      {[status |-> "active"]},
                                      IF fail THEN "err" ELSE "ok", <<>>))
       /\ out' = Append(out, IF fail
                             THEN print_status(FALSE, <<"Failed to enable DNSSEC: ", APIErrorText>>)
                             ELSE print_status(TRUE, <<"DNSSEC enabled successfully.">>))
       /\ faulted' = (faulted \/ fail)
  /\ pc' = "dns_records"
  /\ UNCHANGED <<run, zones, records, zone_id, exit_status, fullRuns>>

\* lines 83-98
ManageDNSRecords ==
  /\ pc = "dns_records"
  /\ \E fails \in SUBSET {"AAAA", "A", "CNAME"}, postFails \in BOOLEAN :
       LET chk == check_dns_record_exists(records, zone_id, RecordTypes, "@", fails)
           post == Call("dns_records.post", zone_id, "AAAA", "@", {AAAAData},
                        IF postFails THEN "err" ELSE "ok", <<>>)
           failed == print_status(FALSE, <<"Failed to manage DNS records: ", APIErrorText>>)
       IN IF chk.raised
          THEN /\ calls' = calls \o chk.calls
               /\ out' = out \o chk.out \o <<failed>>
               /\ records' = records
               /\ faulted' = TRUE
          ELSE IF ~chk.found
          THEN /\ calls' = calls \o chk.calls \o <<post>>
               /\ out' = out \o chk.out \o
                         <<IF postFails THEN failed
                           ELSE print_status(TRUE,
                                  <<"AAAA record for @ with value 100:: created successfully.">>)>>
               /\ records' = IF postFails THEN records ELSE DnsRecordsPost(records, AAAAData)
               /\ faulted' = (faulted \/ postFails)
          ELSE /\ calls' = calls \o chk.calls
               /\ out' = out \o chk.out \o
                         <<print_status(FALSE,
                             <<"An existing ", chk.record_type,
                               " record prevents AAAA record creation for '@'.">>)>>
               /\ records' = records
               /\ faulted' = faulted
  /\ pc' = "zone_settings"
  /\ UNCHANGED <<run, zones, zone_id, exit_status, fullRuns>>

\* lines 100-122
UpdateZoneSettings ==
  /\ pc = "zone_settings"
  /\ \E failAt \in 0..Len(SettingNames) :
       LET loop == settings_loop(zone_id, 1, failAt)
       IN /\ calls' = calls \o loop.calls
          /\ out' = out \o loop.out \o
                    (IF loop.raised
                     THEN <<print_status(FALSE,
                              <<"Failed to update zone settings: ", APIErrorText>>)>>
                     ELSE <<>>)
          /\ faulted' = (faulted \/ loop.raised)
  /\ pc' = "spf"
  /\ UNCHANGED <<run, zones, records, zone_id, exit_status, fullRuns>>

\* HandleSPF issuing the create before the TXT query
HandleSPF_postFirst ==
  /\ pc = "spf"
  /\ \E getFails \in BOOLEAN, postFails \in BOOLEAN :
       LET dns_records == DnsRecordsGet(records, "TXT", NoName)
           get == Call("dns_records.get", zone_id, "TXT", NoName, {},
                       IF getFails THEN "err" ELSE "ok",
                       IF getFails THEN <<>> ELSE dns_records)
           post == Call("dns_records.post", zone_id, "TXT", "@", {SPFData},
                        IF postFails THEN "err" ELSE "ok", <<>>)
           failed == print_status(FALSE, <<"Failed to manage SPF records: ", APIErrorText>>)
       IN IF getFails
          THEN /\ calls' = Append(calls, get)
               /\ out' = Append(out, failed)
               /\ records' = records
               /\ faulted' = TRUE
          ELSE IF ~spf_exists(dns_records)
          THEN /\ calls' = calls \o <<post, get>>
               /\ out' = Append(out, IF postFails THEN failed
                                     ELSE print_status(TRUE,
                                            <<"SPF record for no email added successfully.">>))
               /\ records' = IF postFails THEN records ELSE DnsRecordsPost(records, SPFData)
               /\ faulted' = (faulted \/ postFails)
          ELSE /\ calls' = Append(calls, get)
               /\ out' = Append(out, print_status(FALSE,
                            <<"Existing SPF record found. No new SPF record added.">>))
               /\ records' = records
               /\ faulted' = faulted
  /\ pc' = "preload"
  /\ fullRuns' = fullRuns + 1
  /\ UNCHANGED <<run, zones, zone_id, exit_status>>

\* lines 124-134
HandleSPF ==
  /\ pc = "spf"
  /\ \E getFails \in BOOLEAN, postFails \in BOOLEAN :
       LET dns_records == DnsRecordsGet(records, "TXT", NoName)
           get == Call("dns_records.get", zone_id, "TXT", NoName, {},
                       IF getFails THEN "err" ELSE "ok",
                       IF getFails THEN <<>> ELSE dns_records)
           post == Call("dns_records.post", zone_id, "TXT", "@", {SPFData},
                        IF postFails THEN "err" ELSE "ok", <<>>)
           failed == print_status(FALSE, <<"Failed to manage SPF records: ", APIErrorText>>)
       IN IF getFails
          THEN /\ calls' = Append(calls, get)
               /\ out' = Append(out, failed)
               /\ records' = records
               /\ faulted' = TRUE
          ELSE IF ~spf_exists(dns_records)
          THEN /\ calls' = calls \o <<get, post>>
               /\ out' = Append(out, IF postFails THEN failed
                                     ELSE print_status(TRUE,
                                            <<"SPF record for no email added successfully.">>))
               /\ records' = IF postFails THEN records ELSE DnsRecordsPost(records, SPFData)
               /\ faulted' = (faulted \/ postFails)
          ELSE /\ calls' = Append(calls, get)
               /\ out' = Append(out, print_status(FALSE,
                            <<"Existing SPF record found. No new SPF record added.">>))
               /\ records' = records
               /\ faulted' = faulted
  /\ pc' = "preload"
  /\ fullRuns' = fullRuns + 1
  /\ UNCHANGED <<run, zones, zone_id, exit_status>>

\* lines 136-137
SubmitPreload ==
  /\ pc = "preload"
  /\ \E answer \in Answers :
       LET sub == submit_domain_to_hsts_preload(ZoneName, answer)
       IN /\ calls' = calls \o sub.calls
          /\ out' = out \o sub.out
          /\ pc' = IF sub.raised THEN "raised" ELSE "complete"
          /\ exit_status' = IF sub.raised THEN 1 ELSE exit_status
  /\ UNCHANGED <<run, zones, records, zone_id, faulted, fullRuns>>

\* line 139, and the return of main
Complete ==
  /\ pc = "complete"
  /\ out' = Append(out, print(<<"Configuration complete.">>))
  /\ pc' = "returned"
  /\ exit_status' = 0
  /\ UNCHANGED <<run, zones, records, zone_id, calls, faulted, fullRuns>>

\* lines 141-142: the script is invoked again on the same zone, after a
\* run that went through the hardening steps (a run that stopped before
\* them has issued no write and leaves the zone as a first run finds it)
Rerun ==
  /\ pc \in Terminal
  /\ run < MaxRuns
  /\ fullRuns = run
  /\ run' = run + 1
  /\ pc' = "start"
  /\ zone_id' = NoZone
  /\ calls' = <<>>
  /\ out' = <<>>
  /\ exit_status' = -1
  /\ UNCHANGED <<zones, records, faulted, fullRuns>>

Next ==
  \/ Start
  \/ ZoneLookup
  \/ EnableDNSSEC
  \/ ManageDNSRecords
  \/ UpdateZoneSettings
  \/ HandleSPF
  \/ SubmitPreload
  \/ Complete
  \/ Rerun

Spec == Init /\ [][Next]_vars

TypeOK ==
  /\ pc \in {"start", "zone_lookup", "dnssec", "dns_records", "zone_settings",
             "spf", "preload", "complete"} \cup Terminal
  /\ run \in 1..MaxRuns
  /\ exit_status \in {-1, 0, 1}
  /\ faulted \in BOOLEAN
  /\ fullRuns \in 0..MaxRuns

\* ---- reading the logs ----
Issued(op, key) == \E i \in DOMAIN calls : calls[i].op = op /\ calls[i].key = key

NumIssued(op, key) == Cardinality({i \in DOMAIN calls : calls[i].op = op /\ calls[i].key = key})

Raised(op) == \E i \in DOMAIN calls : calls[i].op = op /\ calls[i].res = "err"

Printed(line) == \E i \in DOMAIN out : out[i] = line

ZoneResolved ==
  \E i \in DOMAIN calls :
    calls[i].op = "zones.get" /\ calls[i].res = "ok" /\ calls[i].ret # <<>>

ZoneLookupEmpty ==
  \E i \in DOMAIN calls :
    calls[i].op = "zones.get" /\ calls[i].res = "ok" /\ calls[i].ret = <<>>

RunEnded == pc \in Terminal

SettingsStepDone == pc \in {"spf", "preload", "complete"} \cup Terminal /\ ZoneResolved

\* ---- claims ----

\* C1: once the zone is resolved, a provider failure in any hardening
\* operation does not stop the run: when the run has ended, the DNSSEC
\* patch, the apex record check, the settings patches and the TXT query
\* have all been attempted and the preload POST has been issued.
C1_FailuresDoNotStopRun ==
  (RunEnded /\ ZoneResolved) =>
    /\ Issued("dnssec.patch", "status")
    /\ Issued("dns_records.get", "AAAA")
    /\ Issued("settings.patch", "ssl")
    /\ Issued("dns_records.get", "TXT")
    /\ Issued("requests.post", ZoneName)

\* a run that ended with a provider failure in each of the four operations
C1_Witness ==
  /\ RunEnded
  /\ Raised("dnssec.patch")
  /\ \E i \in DOMAIN calls :
       calls[i].op = "dns_records.get" /\ calls[i].key = "AAAA" /\ calls[i].res = "err"
  /\ Raised("settings.patch")
  /\ \E i \in DOMAIN calls :
       calls[i].op = "dns_records.get" /\ calls[i].key = "TXT" /\ calls[i].res = "err"
  /\ Issued("requests.post", ZoneName)

\* C2: when the zone lookup returns zero zones the run halts and the
\* lookup is the only remote call of the run.
C2_NoZoneHalts ==
  ZoneLookupEmpty => (Len(calls) = 1 /\ pc = "returned" /\ zone_id = NoZone)

C2_Witness ==
  /\ ZoneLookupEmpty
  /\ pc = "returned"
  /\ Printed(print_status(FALSE, <<"No zones found for the specified name.">>))

\* C3: every run that reaches the settings step attempts the patch of each
\* of the six settings and reports one outcome per setting, whichever
\* patches fail.
C3_SettingsIndependent ==
  SettingsStepDone =>
    \A k \in DOMAIN SettingNames :
      /\ NumIssued("settings.patch", SettingNames[k]) = 1
      /\ \E i \in DOMAIN out : out[i].sym # "" /\ SettingNames[k] \in {out[i].msg[j] : j \in DOMAIN out[i].msg}

\* 'v=spf1' occurs in the string s
HasSPFTag(s) ==
  \E i \in 1..Len(s) :
    /\ i + 5 <= Len(s)
    /\ s[i] = "v" /\ s[i + 1] = "=" /\ s[i + 2] = "s"
    /\ s[i + 3] = "p" /\ s[i + 4] = "f" /\ s[i + 5] = "1"

EmptyGet(log, j, type) ==
  /\ log[j].op = "dns_records.get" /\ log[j].key = type /\ log[j].name = "@"
  /\ log[j].res = "ok" /\ log[j].ret = <<>>

\* C4: an AAAA create is issued only after the queries for AAAA, A and
\* CNAME at '@' of the same run have all answered with no record, and a
\* TXT create only after the TXT query of the same run answered with no
\* content containing 'v=spf1'.
C4_CreateOnlyAfterCheck ==
  \A i \in DOMAIN calls :
    calls[i].op = "dns_records.post" =>
      IF calls[i].key = "AAAA"
      THEN \E a, b, c \in 1..(i - 1) :
             /\ a < b /\ b < c
             /\ EmptyGet(calls, a, "AAAA") /\ EmptyGet(calls, b, "A")
             /\ EmptyGet(calls, c, "CNAME")
      ELSE \E j \in 1..(i - 1) :
             /\ calls[j].op = "dns_records.get" /\ calls[j].key = "TXT"
             /\ calls[j].res = "ok"
             /\ \A k \in DOMAIN calls[j].ret : ~HasSPFTag(calls[j].ret[k].content)

\* a run that issued both creates
C4_Witness ==
  /\ Issued("dns_records.post", "AAAA")
  /\ Issued("dns_records.post", "TXT")

ApexTypes(recs) ==
  {recs[i].type : i \in {j \in DOMAIN recs : recs[j].name = "@"}}
    \cap {"AAAA", "A", "CNAME"}

FirstConflict(recs) ==
  IF "AAAA" \in ApexTypes(recs) THEN "AAAA"
  ELSE IF "A" \in ApexTypes(recs) THEN "A" ELSE "CNAME"

AAAASkipLine(type) ==
  [sym |-> "[x]", msg |-> <<"An existing ", type, " record prevents AAAA record creation for '@'.">>]

\* C5: when AAAA, A or CNAME exists at '@', the AAAA step issues no
\* create, leaves the records alone, names no type but the first existing
\* one in the order AAAA, A, CNAME in its skip reason, and does report
\* that skip reason unless a query raised.
C5_SkipNamesFirstConflict ==
  [][(pc = "dns_records" /\ pc' # "dns_records" /\ ApexTypes(records) # {}) =>
       /\ \A i \in DOMAIN calls' : calls'[i].op # "dns_records.post"
       /\ records' = records
       /\ \A t \in {"AAAA", "A", "CNAME"} :
            (\E i \in DOMAIN out' : out'[i] = AAAASkipLine(t)) => t = FirstConflict(records)
       /\ (\A i \in DOMAIN calls' : calls'[i].res # "err") =>
            \E i \in DOMAIN out' : out'[i] = AAAASkipLine(FirstConflict(records))]_vars

\* A and CNAME both at the apex: the skip reason names A
C5_Witness ==
  /\ pc = "zone_settings"
  /\ ApexTypes(records) = {"A", "CNAME"}
  /\ Printed(AAAASkipLine("A"))

TXTWithSPF(recs) ==
  {i \in DOMAIN recs : recs[i].type = "TXT" /\ HasSPFTag(recs[i].content)}

SPFSkipLine ==
  [sym |-> "[x]", msg |-> <<"Existing SPF record found. No new SPF record added.">>]

TXTPosts(log) == {i \in DOMAIN log : log[i].op = "dns_records.post" /\ log[i].key = "TXT"}

\* C6: when the TXT query is answered, the SPF step skips and issues no
\* create if some TXT record contains 'v=spf1', and otherwise issues
\* exactly one create, of the TXT record '@' / 'v=spf1 -all' / ttl 120.
C6_SPFDecision ==
  [][(pc = "spf" /\ pc' # "spf" /\ calls'[Len(calls) + 1].res = "ok") =>
       IF TXTWithSPF(records) # {}
       THEN /\ TXTPosts(calls') = {}
            /\ records' = records
            /\ \E i \in DOMAIN out' : out'[i] = SPFSkipLine
       ELSE /\ Cardinality(TXTPosts(calls')) = 1
            /\ \A i \in TXTPosts(calls') :
                 calls'[i].data =
                   {[name |-> "@", type |-> "TXT", ttl |-> 120,
                     content |-> <<"v", "=", "s", "p", "f", "1", " ", "-", "a", "l", "l">>]}
            /\ \A i \in DOMAIN out' : out'[i] # SPFSkipLine]_vars

\* an apex TXT record "v=spf1 ~all" (quoted) was found and the step skipped
C6_Witness ==
  /\ pc = "preload"
  /\ \E i \in DOMAIN records : records[i].type = "TXT" /\ records[i].content = SPFQuoted
  /\ Printed(SPFSkipLine)
  /\ TXTPosts(calls) = {}

\* C7: the SPF decision looks at the apex TXT records only: the create is
\* attempted exactly when the TXT query found no apex record containing
\* 'v=spf1'.
C7_SPFApexOnly ==
  \A j \in DOMAIN calls :
    (calls[j].op = "dns_records.get" /\ calls[j].key = "TXT" /\ calls[j].res = "ok") =>
      (TXTPosts(calls) # {} <=>
         ~ \E k \in DOMAIN calls[j].ret :
             calls[j].ret[k].name = "@" /\ HasSPFTag(calls[j].ret[k].content))

HardeningDone == pc \in {"preload", "complete"} \cup Terminal /\ Issued("dns_records.get", "TXT")

\* C8: in a second (or later) full run, no provider call having failed in
\* any run, the AAAA and the SPF creation are skipped, the zone holds at
\* most one placeholder AAAA and one no-mail SPF record, and the DNSSEC
\* patch and the six settings patches are issued again and reported as
\* successful.
C8_SecondRunIdempotent ==
  (fullRuns >= 2 /\ ~faulted /\ HardeningDone) =>
    /\ \A i \in DOMAIN calls : calls[i].op # "dns_records.post"
    /\ \E t \in {"AAAA", "A", "CNAME"} : Printed(AAAASkipLine(t))
    /\ Printed(SPFSkipLine)
    /\ Cardinality({i \in DOMAIN records :
                      records[i].type = "AAAA" /\ records[i].content = PlaceholderAddr}) <= 1
    /\ Cardinality({i \in DOMAIN records :
                      records[i].type = "TXT" /\ records[i].name = "@"
                      /\ records[i].content = SPFNoMail}) <= 1
    /\ \E i \in DOMAIN calls : calls[i].op = "dnssec.patch" /\ calls[i].res = "ok"
    /\ Printed([sym |-> "[ok]", msg |-> <<"DNSSEC enabled successfully.">>])
    /\ \A k \in DOMAIN SettingNames :
         /\ \E i \in DOMAIN calls :
              /\ calls[i].op = "settings.patch" /\ calls[i].key = SettingNames[k]
              /\ calls[i].res = "ok"
         /\ Printed([sym |-> "[ok]", msg |-> <<SettingNames[k], " updated successfully.">>])

\* the second full run on a zone whose apex was empty before the first:
\* both records were created by the first run and are skipped now
C8_Witness ==
  /\ fullRuns = 2 /\ ~faulted /\ HardeningDone
  /\ Cardinality({i \in DOMAIN records :
                    records[i].type = "AAAA" /\ records[i].content = PlaceholderAddr}) = 1
  /\ Cardinality({i \in DOMAIN records :
                    records[i].type = "TXT" /\ records[i].content = SPFNoMail
                    /\ records[i].name = "@"}) = 1
  /\ Printed(AAAASkipLine("AAAA"))
  /\ Printed(SPFSkipLine)

PreloadSuccessLine ==
  [sym |-> "[ok]",
   msg |-> <<"Domain ", ZoneName, " submitted to HSTS preload list successfully.">>]

\* C9: an answered preload POST is classified by status and body: success
\* status with a non-empty errors array is reported as failure and not as
\* success; success status without errors (the key absent or the array
\* empty) is reported as success with every warning printed; any other
\* status is reported as failure with the status code and the body.
C9_PreloadClassification ==
  \A i \in DOMAIN calls :
    (calls[i].op = "requests.post" /\ calls[i].res = "ok" /\ pc \in {"complete", "returned"}) =>
      LET response == calls[i].ret[1]
      IN IF response.status \in 200..299
         THEN IF response.json.errors # <<>>
              THEN /\ \E k \in DOMAIN out : out[k].sym = "[x]" /\ out[k].msg[1] = "Error: "
                   /\ ~Printed(PreloadSuccessLine)
              ELSE /\ Printed(PreloadSuccessLine)
                   /\ Cardinality({k \in DOMAIN out : out[k].msg[1] = "Warning: "})
                        = Len(response.json.warnings)
         ELSE /\ \E k \in DOMAIN out :
                   /\ out[k].sym = "[x]"
                   /\ out[k].msg[Len(out[k].msg)] = ToString(response.status)
              /\ \E k \in DOMAIN out : out[k].msg[1] = "Response text:"

\* C10: the preload submission never raises: once the POST has been
\* issued, the run ends by returning from main after the completion
\* notice, whatever the endpoint did.
C10_PreloadNeverRaises ==
  (Issued("requests.post", ZoneName) /\ RunEnded) =>
    /\ pc = "returned"
    /\ out[Len(out)] = [sym |-> "", msg |-> <<"Configuration complete.">>]

CompletionNotice == [sym |-> "", msg |-> <<"Configuration complete.">>]

\* C11: every run in which the zone was resolved prints the completion
\* notice before it ends, whatever failed on the way.
C11_CompletionNoticePrinted ==
  (RunEnded /\ ZoneResolved) => \E i \in DOMAIN out : out[i] = CompletionNotice

\* the first piece of the status lines of each operation
StatusHeads(operation) ==
  CASE operation = "dnssec" -> {"DNSSEC enabled successfully.", "Failed to enable DNSSEC: "}
    [] operation = "aaaa" ->
         {"An existing ", "AAAA record for @ with value 100:: created successfully.",
          "Failed to manage DNS records: "}
    [] operation = "spf" ->
         {"SPF record for no email added successfully.",
          "Existing SPF record found. No new SPF record added.",
          "Failed to manage SPF records: "}
    [] operation = "preload" -> {"Error: ", "Domain ", "Failed to submit domain "}

StatusLines(operation) ==
  {i \in DOMAIN out : out[i].sym # "" /\ out[i].msg[1] \in StatusHeads(operation)}

\* the status lines of the settings step: one per patched setting, the
\* failure line being that of the setting whose patch raised
SettingStatusLines ==
  {i \in DOMAIN out :
     /\ out[i].sym # ""
     /\ \/ out[i].msg[1] = "Failed to update zone settings: "
        \/ \E k \in DOMAIN SettingNames : out[i].msg[1] = SettingNames[k]}

SettingPatches == {i \in DOMAIN calls : calls[i].op = "settings.patch"}

\* C12: every operation that has been executed in the run has printed
\* exactly one status line.
C12_OneStatusLinePerOperation ==
  /\ (pc \in {"dns_records", "zone_settings", "spf", "preload", "complete"} /\ ZoneResolved)
       => Cardinality(StatusLines("dnssec")) = 1
  /\ (pc \in {"zone_settings", "spf", "preload", "complete"} /\ ZoneResolved)
       => Cardinality(StatusLines("aaaa")) = 1
  /\ (pc \in {"spf", "preload", "complete"} /\ ZoneResolved)
       => Cardinality(SettingStatusLines) = Cardinality(SettingPatches)
  /\ (pc \in {"preload", "complete"} /\ ZoneResolved)
       => Cardinality(StatusLines("spf")) = 1
  /\ (pc \in {"complete", "returned"} /\ Issued("requests.post", ZoneName))
       => Cardinality(StatusLines("preload")) = 1

\* C13: a run ends with a non-zero exit status when the zone was not
\* resolved or the arguments were wrong, and with exit status zero in
\* every run in which the zone was resolved.
C13_ExitStatus ==
  RunEnded => IF ZoneResolved THEN exit_status = 0 ELSE exit_status # 0

\* C14: in the existence check over AAAA, A, CNAME a query that raises
\* does not abort the check: the next type of the list is still queried.
C14_QueryFailureContained ==
  \A i \in DOMAIN calls :
    (calls[i].op = "dns_records.get" /\ calls[i].name = "@" /\ calls[i].res = "err"
       /\ pc # "dns_records") =>
      /\ calls[i].key = "AAAA" => Issued("dns_records.get", "A")
      /\ calls[i].key = "A" => Issued("dns_records.get", "CNAME")

NewCalls(before, after) == {i \in DOMAIN after : i > Len(before)}

\* C15: with no AAAA, A or CNAME at '@' and no provider failure in the
\* step, the AAAA step issues exactly one create, of the record
\* {AAAA, '@', '100::', 120, proxied}, and reports success.
C15_PlaceholderCreated ==
  [][(/\ pc = "dns_records" /\ pc' # "dns_records"
      /\ ApexTypes(records) = {}
      /\ \A i \in NewCalls(calls, calls') : calls'[i].res # "err") =>
       LET posts == {i \in DOMAIN calls' : calls'[i].op = "dns_records.post"}
           placeholder == [name |-> "@", type |-> "AAAA",
                           content |-> <<"1", "0", "0", ":", ":">>,
                           ttl |-> 120, proxied |-> TRUE]
       IN /\ Cardinality(posts) = 1
          /\ \A i \in posts : calls'[i].data = {placeholder}
          /\ records' = Append(records, placeholder)
          /\ out'[Len(out')] =
               [sym |-> "[ok]",
                msg |-> <<"AAAA record for @ with value 100:: created successfully.">>]]_vars

\* the placeholder has just been created on an apex that had no address
C15_Witness ==
  /\ pc = "zone_settings"
  /\ \E i \in DOMAIN calls :
       calls[i].op = "dns_records.post" /\ calls[i].key = "AAAA" /\ calls[i].res = "ok"
  /\ ApexTypes(records) = {"AAAA"}
  /\ Printed([sym |-> "[ok]",
              msg |-> <<"AAAA record for @ with value 100:: created successfully.">>])

\* the operation a remote call belongs to, in the order of main
Phase(call) ==
  CASE call.op = "zones.get" -> 1
    [] call.op = "dnssec.patch" -> 2
    [] call.op \in {"dns_records.get", "dns_records.post"} /\ call.key # "TXT" -> 3
    [] call.op = "settings.patch" -> 4
    [] call.op \in {"dns_records.get", "dns_records.post"} /\ call.key = "TXT" -> 5
    [] call.op = "requests.post" -> 6

\* C16: the remote calls of a run are issued operation by operation in
\* the order zone lookup, DNSSEC patch, apex check and AAAA create,
\* settings patches, TXT query and SPF create, preload POST: the lookup
\* is the first call and happens once, no operation is entered before
\* all earlier ones were, a create never precedes its query, and nothing
\* follows the preload POST.
C16_CallOrder ==
  LET ph == [i \in DOMAIN calls |-> Phase(calls[i])]
  IN /\ calls # <<>> => ph[1] = 1
     /\ \A i \in 1..(Len(calls) - 1) :
          /\ ph[i] <= ph[i + 1]
          /\ ph[i + 1] <= ph[i] + 1
          /\ ph[i + 1] # 1
          /\ ph[i] # 6
          /\ calls[i].op = "dns_records.post" => ph[i + 1] > ph[i]
          /\ calls[i + 1].op = "dns_records.post" =>
               (calls[i].op = "dns_records.get" /\ ph[i] = ph[i + 1])

\* a run that issued calls of all six operations, both creates included
C16_Witness ==
  /\ pc = "complete"
  /\ {Phase(calls[i]) : i \in DOMAIN calls} = 1..6
  /\ Cardinality({i \in DOMAIN calls : calls[i].op = "dns_records.post"}) = 2

\* C17: no remote call is retried: within a run no two calls have the
\* same operation and target (zone lookup, DNSSEC patch, each setting,
\* each per-type query, each create, preload POST).
C17_NoRetry ==
  Cardinality({<<calls[i].op, calls[i].key, calls[i].name>> : i \in DOMAIN calls}) = Len(calls)

\* a run in which the DNSSEC patch, a settings patch, both creates and
\* the preload POST all failed
C17_Witness ==
  /\ RunEnded
  /\ Raised("dnssec.patch") /\ Raised("settings.patch") /\ Raised("requests.post")
  /\ Cardinality({i \in DOMAIN calls :
                    calls[i].op = "dns_records.post" /\ calls[i].res = "err"}) = 2

ApexQueries(log) == {i \in DOMAIN log : log[i].op = "dns_records.get" /\ log[i].name = "@"}

TypeOrder == <<"AAAA", "A", "CNAME">>

\* C18: the existence check queries AAAA, A, CNAME in this order and
\* stops at the first type that has a record at '@', which it names;
\* it reports no record only after all three queries came back empty.
C18_ShortCircuit ==
  [][(/\ pc = "dns_records" /\ pc' # "dns_records"
      /\ \A i \in ApexQueries(calls') : calls'[i].res = "ok") =>
       LET n == Cardinality(ApexQueries(calls'))
           first == Len(calls) + 1
       IN /\ n \in 1..3
          /\ \A k \in 1..n :
               /\ first + k - 1 \in ApexQueries(calls')
               /\ calls'[first + k - 1].key = TypeOrder[k]
               /\ k < n => TypeOrder[k] \notin ApexTypes(records)
          /\ IF ApexTypes(records) = {}
             THEN /\ n = 3
                  /\ \A i \in DOMAIN out' : out'[i].msg[1] # "An existing "
             ELSE /\ TypeOrder[n] \in ApexTypes(records)
                  /\ \E i \in DOMAIN out' :
                       out'[i].msg = <<"An existing ", TypeOrder[n], " record found for ", "@", ".">>]_vars

\* the check stopped at the A record: AAAA and A were queried, CNAME
\* (which exists as well) was not
C18_Witness ==
  /\ pc = "zone_settings"
  /\ ApexTypes(records) = {"A", "CNAME"}
  /\ Cardinality(ApexQueries(calls)) = 2
  /\ ~Issued("dns_records.get", "CNAME")

\* C19: a step of a run never changes or removes a record: the record
\* list only grows at its end, by the AAAA placeholder at '@' or by the
\* no-mail TXT record at '@', each at most once in a run, and no TXT
\* record is added while some TXT record contains 'v=spf1'.
C19_RecordsOnlyAppended ==
  [][(records' # records) =>
       /\ Len(records') = Len(records) + 1
       /\ SubSeq(records', 1, Len(records)) = records
       /\ LET new == records'[Len(records')]
          IN /\ new.name = "@"
             /\ new.type \in {"AAAA", "TXT"}
             /\ ~ \E i \in DOMAIN calls :
                    /\ calls[i].op = "dns_records.post"
                    /\ \E d \in calls[i].data : d.type = new.type
             /\ new.type = "TXT" => TXTWithSPF(records) = {}
             /\ new.type = "AAAA" => ApexTypes(records) = {}]_vars

\* both records were added in one run next to a TXT record that was
\* already at the apex
C19_Witness ==
  /\ RunEnded
  /\ \E i, j, k \in DOMAIN records :
       /\ i < j /\ j < k
       /\ records[i].type = "TXT" /\ records[i].name = "@" /\ records[i].content = NotSPF
       /\ records[j].type = "AAAA" /\ records[j].content = PlaceholderAddr
       /\ records[k].type = "TXT" /\ records[k].content = SPFNoMail /\ records[k].name = "@"
  /\ Cardinality({i \in DOMAIN calls :
                    calls[i].op = "dns_records.post" /\ calls[i].res = "ok"}) = 2

ZoneLookupRaised ==
  \E i \in DOMAIN calls : calls[i].op = "zones.get" /\ calls[i].res = "err"

\* C20: when the zone lookup itself raises, the error is reported and
\* the run ends: the lookup is the only remote call of the run.
C20_LookupErrorHalts ==
  ZoneLookupRaised =>
    /\ Len(calls) = 1
    /\ pc = "returned"
    /\ out[Len(out)] = [sym |-> "[x]",
                        msg |-> <<"Error fetching zone information: ", APIErrorText>>]

C20_Witness ==
  /\ ZoneLookupRaised
  /\ pc = "returned"
  /\ zone_id = NoZone

====
